---- MODULE Spec2Model ----
(***************************************************************************)
(* Model of the two command-line tools of the repository:                  *)
(*   - the fetcher, src/preparation/get_data.py (send_request,             *)
(*     format_query_params, get_daily_comments, main);                     *)
(*   - the labeler, src/processing/select_flair_labels.py (save_answer,    *)
(*     resolve_answer, label_keys, main).                                  *)
(* Dates are day numbers 0, 1, ...; day d is the window                    *)
(* [d * DaySeconds, (d + 1) * DaySeconds) in epoch seconds.                *)
(***************************************************************************)
EXTENDS Integers, Sequences, FiniteSets, TLC

(* ------------------------------ bounds --------------------------------- *)

MaxDays == 2
DaySeconds == 2
MaxCorpus == 3
MaxBatch == 2
MaxRetries == 2
MaxRuns == 2

(* --------------------------- program constants ------------------------- *)

DefaultTimeout == 10
QUERY_STRING == "-moscopole -moscone mosco*|kremlin*|russia*|putin*"
SUBREDDIT == "europe"
Statuses == {200, 404, 429, 503}
Timeouts == {DefaultTimeout, DefaultTimeout \div 2}

(* ------------------------------ helpers -------------------------------- *)

\* Python's None and an optional value: <<>> is None, <<x>> is the value x.
None == <<>>
Some(x) == <<x>>
IsNone(o) == o = <<>>

Days == 0 .. (MaxDays - 1)
Times == 0 .. (MaxDays * DaySeconds - 1)

SeqsUpTo(S, n) == UNION {[1 .. k -> S] : k \in 0 .. n}
NonDecreasing(s) == \A k \in 1 .. (Len(s) - 1) : s[k] <= s[k + 1]
Last(s) == s[Len(s)]
Take(s, n) == SubSeq(s, 1, IF n < Len(s) THEN n ELSE Len(s))

VARIABLES
    corpus,         \* the API's comments: created_utc of comment k, ascending
    fs,             \* the destination root: one path per day
    completed,      \* days whose two files were written in full
    runs,           \* number of runs of main started
    pc,             \* position of the running main
    error,          \* the exception that ended the run, or "none"
    start_date, end_date,
    windows,        \* pairwise(date_range) of the run
    i,              \* index of the window in progress
    force_rewrite, batch_size, timeout,
    params,         \* query parameters of the request being sent
    status,         \* status code of the last response
    call,           \* the send_request call in progress or last finished
    response,       \* (metadata, data) returned by the last send_request
    metadata, comments,
    pages,          \* the pages received for the window, in request order
    result,         \* return value of get_daily_comments, None until it returns
    writes,         \* files created, truncated or written by the run
    skipped,        \* days the run skipped
    fs0,            \* fs when the run started
    rerun           \* the run repeats the completed previous run, without force_rewrite

fetchVars == <<corpus, fs, completed, runs, pc, error, start_date, end_date,
               windows, i, force_rewrite,
               batch_size, timeout, params, status, call, response, metadata,
               comments, pages, result, writes, skipped, fs0, rerun>>

VARIABLES
    flair_data,      \* the candidate table: entries (key, values) in dict order
    log,             \* the destination log: None when absent, else its lines
    locale_encoding, \* the encoding open() uses when none is given
    lpc,             \* position of the running labeler
    lerror,          \* the exception that ended the session, or "none"
    exit_code,       \* the status of sys.exit, None while none was made
    continue_labelling,
    todo,            \* the entries label_keys still has to go through
    prompted,        \* the keys prompted in the session, in order
    log0,            \* the log when the session started
    sessions,        \* number of sessions started
    selected,        \* the choice of the last answer: None (no answer since the
                     \* prompt), Some(None) or Some(Some(<<label, count>>))
    finished_once    \* some session ran to the end

labelVars == <<flair_data, log, locale_encoding, lpc, lerror, exit_code,
               continue_labelling, todo, prompted, log0, sessions, selected,
               finished_once>>

vars == <<fetchVars, labelVars>>

(* ------------------------- the search API ------------------------------ *)

Comment(k) == [id |-> k, created_utc |-> corpus[k]]

\* The comments with after <= created_utc < before, ascending by created_utc.
Matching(after, before) ==
    SelectSeq([k \in 1 .. Len(corpus) |-> Comment(k)],
              LAMBDA c : after <= c.created_utc /\ c.created_utc < before)

ApiResponse(p) ==
    [metadata |-> IF p.metadata THEN Some(Len(Matching(p.after, p.before[1]))) ELSE None,
     data     |-> Take(Matching(p.after, p.before[1]), p.size)]

(* --------------------------- get_data.py ------------------------------- *)

\* FormatQueryParams with a slip: every request asks for the metadata
FormatQueryParamsAlwaysMetadata(after, size, before, include_metadata) ==
    [q |-> QUERY_STRING, subreddit |-> SUBREDDIT, metadata |-> TRUE,
     size |-> size, after |-> after, order |-> "asc", before |-> before]

FormatQueryParams(after, size, before, include_metadata) ==
    [q |-> QUERY_STRING, subreddit |-> SUBREDDIT, metadata |-> include_metadata,
     size |-> size, after |-> after, order |-> "asc", before |-> before]

\* GetNextQueryParams with a slip: before is the end of the following day
GetNextQueryParamsWide(after, include_metadata) ==
    FormatQueryParams(after, batch_size, Some((windows[i][2] + 1) * DaySeconds),
                      include_metadata)

\* partial(format_query_params, before=before_timestamp, size=batch_size)
GetNextQueryParams(after, include_metadata) ==
    FormatQueryParams(after, batch_size, Some((windows[i][2]) * DaySeconds),
                      include_metadata)

\* pd.date_range(start, end), or pd.date_range(start, periods=2) without end
DateRange(start, end) ==
    IF IsNone(end) THEN <<start, start + 1>>
    ELSE [k \in 1 .. (IF end[1] >= start THEN end[1] - start + 1 ELSE 0) |-> start + k - 1]

\* Pairwise with a slip: every pair ends at the last element
PairwiseToLast(s) == [k \in 1 .. (IF Len(s) > 0 THEN Len(s) - 1 ELSE 0) |-> <<s[k], s[Len(s)]>>]

\* itertools.pairwise
Pairwise(s) == [k \in 1 .. (IF Len(s) > 0 THEN Len(s) - 1 ELSE 0) |-> <<s[k], s[k + 1]>>]

NoFolder == [kind |-> "absent", comments |-> None, metadata |-> None]
NoCall == [attempts |-> 0, sleeps |-> <<>>, sent |-> <<>>, done |-> TRUE]

Day == windows[i][1]

cfgVars == <<runs, start_date, end_date, windows, force_rewrite, batch_size,
             timeout, fs0, rerun>>
netVars == <<params, status, call, response>>
batchVars == <<metadata, comments, pages, result>>

Raise(err) == pc' = "aborted" /\ error' = err

\* IsRetryable with a slip: every 4xx is retried like a 429
IsRetryableAny4xx(st) == st = 429 \/ st >= 400
IsRetryable(st) == st = 429 \/ st >= 500

\* SleepSeconds with a slip: the sleep grows with the number of retries made
SleepSecondsBackoff(t, n) == t * (n + 1)
\* time.sleep(timeout) of the retry after n earlier sleeps
SleepSeconds(t, n) == t

\* `after` of the next page: int(comments[-1]["created_utc"]) + 1
\* NextAfter with a slip: the old exclusive bound, without the + 1
NextAfterSame(cs) == Last(cs).created_utc
NextAfter(cs) == Last(cs).created_utc + 1

\* comments += list(data)
\* Accumulate with a slip: the page is put in front of the batch
AccumulateInFront(cs, data) == data \o cs
Accumulate(cs, data) == cs \o data

\* target_folder.exists() and target_folder.is_dir() and not force_rewrite
\* ShouldSkip with a slip: the force_rewrite test is inverted
ShouldSkipInverted(d) == fs[d].kind # "absent" /\ fs[d].kind = "dir" /\ force_rewrite
ShouldSkip(d) == fs[d].kind # "absent" /\ fs[d].kind = "dir" /\ ~force_rewrite

\* response.json(), then the metadata (None when the key is missing) and the data
ParseResponse(body) == [metadata |-> body.metadata, data |-> body.data]

NewCall == [attempts |-> 0, sleeps |-> <<>>, sent |-> <<>>, done |-> FALSE]
CallNow == IF call.done THEN NewCall ELSE call
Sent(c) == [c EXCEPT !.attempts = @ + 1, !.sent = Append(@, params)]

InRequest == pc \in {"first_request", "next_request"}

\* the fetcher before main is called
FetchIdle ==
    /\ completed = {}
    /\ runs = 0
    /\ pc = "idle"
    /\ error = "none"
    /\ start_date = 0
    /\ end_date = None
    /\ windows = <<>>
    /\ i = 1
    /\ force_rewrite = FALSE
    /\ batch_size = 1
    /\ timeout = DefaultTimeout
    /\ params = None
    /\ status = 0
    /\ call = NoCall
    /\ response = None
    /\ metadata = None
    /\ comments = <<>>
    /\ pages = <<>>
    /\ result = None
    /\ writes = 0
    /\ skipped = {}
    /\ fs0 = fs
    /\ rerun = FALSE

FetchInit ==
    /\ corpus \in {s \in SeqsUpTo(Times, MaxCorpus) : NonDecreasing(s)}
    /\ fs \in [Days -> {NoFolder, [NoFolder EXCEPT !.kind = "file"]}]
    /\ FetchIdle

\* main() is started: lines 128-135
StartRun(start, end, bs, t, fr) ==
    /\ pc \in {"idle", "done", "aborted"}
    /\ runs < MaxRuns
    /\ runs' = runs + 1
    /\ start_date' = start
    /\ end_date' = end
    /\ windows' = Pairwise(DateRange(start, end))
    /\ i' = 1
    /\ force_rewrite' = fr
    /\ batch_size' = bs
    /\ timeout' = t
    /\ pc' = "loop"
    /\ error' = "none"
    /\ params' = None
    /\ status' = 0
    /\ call' = NoCall
    /\ response' = None
    /\ metadata' = None
    /\ comments' = <<>>
    /\ pages' = <<>>
    /\ result' = None
    /\ writes' = 0
    /\ skipped' = {}
    /\ fs0' = fs
    /\ rerun' = (pc = "done" /\ windows' = windows /\ ~fr)
    /\ UNCHANGED <<corpus, fs, completed>>
    /\ UNCHANGED labelVars

\* the day's folder exists and is not to be rewritten: lines 138-146
SkipDay ==
    /\ pc = "loop"
    /\ i <= Len(windows)
    /\ ShouldSkip(Day)
    /\ i' = i + 1
    /\ skipped' = skipped \cup {Day}
    /\ UNCHANGED <<corpus, fs, completed, pc, error, writes>>
    /\ UNCHANGED <<cfgVars, netVars, batchVars, labelVars>>

\* get_daily_comments is entered and its first request prepared: lines 148-150, 94-99
BeginDay ==
    /\ pc = "loop"
    /\ i <= Len(windows)
    /\ ~ShouldSkip(Day)
    /\ params' = GetNextQueryParams(Day * DaySeconds, TRUE)
    /\ call' = NewCall
    /\ metadata' = None
    /\ comments' = <<>>
    /\ pages' = <<>>
    /\ result' = None
    /\ pc' = "first_request"
    /\ UNCHANGED <<corpus, fs, completed, error, i, status, response,
                   writes, skipped>>
    /\ UNCHANGED <<cfgVars, labelVars>>

\* the for loop of main is exhausted: line 137
FinishRun ==
    /\ pc = "loop"
    /\ i > Len(windows)
    /\ pc' = "done"
    /\ UNCHANGED <<corpus, fs, completed, error, i, writes, skipped>>
    /\ UNCHANGED <<cfgVars, netVars, batchVars, labelVars>>

\* send_request gets a 429 or a 5xx, sleeps and loops: lines 62-71
RespondRetry ==
    /\ InRequest
    /\ Len(CallNow.sleeps) < MaxRetries
    /\ \E st \in Statuses :
        /\ st # 200
        /\ IsRetryable(st)
        /\ status' = st
    /\ call' = [Sent(CallNow) EXCEPT
                   !.sleeps = Append(@, SleepSeconds(timeout, Len(@)))]
    /\ UNCHANGED <<corpus, fs, completed, pc, error, i, params, response,
                   writes, skipped>>
    /\ UNCHANGED <<cfgVars, batchVars, labelVars>>

\* send_request gets any other status and raises: lines 73-74
RespondFatal ==
    /\ InRequest
    /\ \E st \in Statuses :
        /\ st # 200
        /\ ~IsRetryable(st)
        /\ status' = st
    /\ call' = Sent(CallNow)
    /\ Raise("NotImplementedError")
    /\ UNCHANGED <<corpus, fs, completed, i, params, response, writes, skipped>>
    /\ UNCHANGED <<cfgVars, batchVars, labelVars>>

\* the first request of the window is answered with 200: lines 56-60, 100-111
Respond200First ==
    /\ pc = "first_request"
    /\ status' = 200
    /\ call' = [Sent(CallNow) EXCEPT !.done = TRUE]
    /\ response' = Some(ParseResponse(ApiResponse(params)))
    /\ metadata' = response'[1].metadata
    /\ comments' = response'[1].data
    /\ pages' = <<response'[1].data>>
    /\ IF comments' = <<>>
       THEN \* comments[-1] of an empty list, line 111
            /\ Raise("IndexError")
            /\ UNCHANGED params
       ELSE /\ params' = GetNextQueryParams(NextAfter(comments'), FALSE)
            /\ pc' = "next_request"
            /\ UNCHANGED error
    /\ UNCHANGED <<corpus, fs, completed, i, result, writes, skipped>>
    /\ UNCHANGED <<cfgVars, labelVars>>

\* a later request of the window is answered with 200: lines 56-60, 111-125
Respond200Next ==
    /\ pc = "next_request"
    /\ status' = 200
    /\ call' = [Sent(CallNow) EXCEPT !.done = TRUE]
    /\ response' = Some(ParseResponse(ApiResponse(params)))
    /\ pages' = Append(pages, response'[1].data)
    /\ IF response'[1].data # <<>>
       THEN /\ comments' = Accumulate(comments, response'[1].data)
            /\ params' = GetNextQueryParams(NextAfter(comments'), FALSE)
            /\ UNCHANGED <<pc, result>>
       ELSE /\ result' = Some([metadata |-> metadata, comments |-> comments])
            /\ pc' = "fetched"
            /\ UNCHANGED <<comments, params>>
    /\ UNCHANGED <<corpus, fs, completed, error, i, metadata, writes, skipped>>
    /\ UNCHANGED <<cfgVars, labelVars>>

\* target_folder.mkdir(parents=True, exist_ok=True): line 153
Mkdir ==
    /\ pc = "fetched"
    /\ IF fs[Day].kind = "file"
       THEN /\ Raise("FileExistsError")
            /\ UNCHANGED fs
       ELSE /\ fs' = [fs EXCEPT ![Day].kind = "dir"]
            /\ pc' = "open_comments"
            /\ UNCHANGED error
    /\ UNCHANGED <<corpus, completed, i, writes, skipped>>
    /\ UNCHANGED <<cfgVars, netVars, batchVars, labelVars>>

\* open(comments_file, "w"): line 156
OpenComments ==
    /\ pc = "open_comments"
    /\ fs' = [fs EXCEPT ![Day].comments = Some(<<>>)]
    /\ completed' = completed \ {Day}
    /\ writes' = writes + 1
    /\ pc' = "write_comments"
    /\ UNCHANGED <<corpus, error, i, skipped>>
    /\ UNCHANGED <<cfgVars, netVars, batchVars, labelVars>>

\* one entry of the batch is dumped: lines 157-159
WriteEntry ==
    /\ pc = "write_comments"
    /\ Len(fs[Day].comments[1]) < Len(result[1].comments)
    /\ fs' = [fs EXCEPT ![Day].comments =
                 Some(Append(@[1], result[1].comments[Len(@[1]) + 1]))]
    /\ writes' = writes + 1
    /\ UNCHANGED <<corpus, completed, pc, error, i, skipped>>
    /\ UNCHANGED <<cfgVars, netVars, batchVars, labelVars>>

\* the comments file is closed and the metadata file written: lines 161-163
WriteMetadata ==
    /\ pc = "write_comments"
    /\ Len(fs[Day].comments[1]) = Len(result[1].comments)
    /\ fs' = [fs EXCEPT ![Day].metadata = Some(result[1].metadata)]
    /\ completed' = completed \cup {Day}
    /\ writes' = writes + 1
    /\ i' = i + 1
    /\ pc' = "loop"
    /\ UNCHANGED <<corpus, error, skipped>>
    /\ UNCHANGED <<cfgVars, netVars, batchVars, labelVars>>

\* the process is interrupted (Ctrl-C, kill): nothing in main catches it
Interrupt ==
    /\ pc \notin {"idle", "done", "aborted"}
    /\ Raise("KeyboardInterrupt")
    /\ UNCHANGED <<corpus, fs, completed, i, writes, skipped>>
    /\ UNCHANGED <<cfgVars, netVars, batchVars, labelVars>>

(* ----------------------- select_flair_labels.py ------------------------ *)

MaxKeys == 3
MaxLogLines == 2
MaxSessions == 2

\* Text is a sequence of code points, a file's content a sequence of bytes.
KeyA == <<97>>
KeyB == <<98>>
KeyEAcute == <<233>>
KeyZ == <<122>>
LabelRu == <<114, 117>>
LabelUa == <<117, 97>>
LabelColon == <<114, 58, 117>>
LabelEmpty == <<>>

KeyPool == {KeyA, KeyB, KeyEAcute}

\* the candidates of a key, label and count, in the order of the dict
ValuesOf(k) ==
    IF k = KeyA THEN << <<LabelUa, 7>>, <<LabelRu, 42>> >>
    ELSE IF k = KeyB THEN << <<LabelColon, 3>>, <<LabelEmpty, 1>> >>
    ELSE <<>>

Encodings == {"utf-8", "cp1252"}

\* str.encode("utf8") of a text of code points below 2048
RECURSIVE Utf8Encode(_)
Utf8Encode(text) ==
    IF text = <<>> THEN <<>>
    ELSE (IF Head(text) < 128 THEN <<Head(text)>>
          ELSE <<192 + (Head(text) \div 64), 128 + (Head(text) % 64)>>)
         \o Utf8Encode(Tail(text))

\* bytes.decode("utf8") of well-formed one- and two-byte sequences
RECURSIVE Utf8Decode(_)
Utf8Decode(bytes) ==
    IF bytes = <<>> THEN <<>>
    ELSE IF Head(bytes) < 128 THEN <<Head(bytes)>> \o Utf8Decode(Tail(bytes))
    ELSE <<(Head(bytes) - 192) * 64 + (bytes[2] - 128)>> \o Utf8Decode(Tail(Tail(bytes)))

\* bytes.decode("cp1252") of bytes below 128 or from 160 on: one character a byte
Cp1252Decode(bytes) == bytes

\* what a file opened for reading without `encoding` yields
LocaleDecode(bytes) ==
    IF locale_encoding = "utf-8" THEN Utf8Decode(bytes) ELSE Cp1252Decode(bytes)

\* str(n) for n >= 0
RECURSIVE Digits(_)
Digits(n) == IF n < 10 THEN <<48 + n>> ELSE Digits(n \div 10) \o <<48 + (n % 10)>>

\* "({}: {})".format(k, v)
Display(label, count) == <<40>> \o label \o <<58, 32>> \o Digits(count) \o <<41>>

\* sorted(values.items(), key=lambda x: x[1], reverse=True): stable
RECURSIVE SortedByCount(_)
SortedByCount(values) ==
    IF values = <<>> THEN <<>>
    ELSE LET first == CHOOSE k \in DOMAIN values :
                    /\ \A j \in DOMAIN values : values[j][2] <= values[k][2]
                    /\ \A j \in 1 .. (k - 1) : values[j][2] < values[k][2]
         IN  <<values[first]>>
             \o SortedByCount([j \in 1 .. (Len(values) - 1) |->
                                  IF j < first THEN values[j] ELSE values[j + 1]])

\* the choices of prompt_options: the display strings, then None
Choices(values) ==
    [k \in 1 .. Len(values) |->
        Some(Display(SortedByCount(values)[k][1], SortedByCount(values)[k][2]))]
    \o <<None>>

\* re.search("(?<=\()(.+)(?=\:)", text): the leftmost start after a "(", then the
\* longest run without a newline that a ":" follows; None without a match
RegexSearch(text) ==
    LET Matches(s, e) ==
            /\ s >= 2 /\ text[s - 1] = 40
            /\ e >= s /\ e + 1 <= Len(text) /\ text[e + 1] = 58
            /\ \A k \in s .. e : text[k] # 10
        Starts == {s \in DOMAIN text : \E e \in DOMAIN text : Matches(s, e)}
    IN  IF Starts = {} THEN None
        ELSE LET s == CHOOSE x \in Starts : \A y \in Starts : x <= y
                 e == CHOOSE x \in DOMAIN text :
                        /\ Matches(s, x)
                        /\ \A y \in DOMAIN text : Matches(s, y) => y <= x
             IN  Some(SubSeq(text, s, e))

\* ResolveAnswer with a slip: a rejected key is marked for review
ResolveAnswerFlagNone(flair_id, selection) ==
    [key |-> flair_id,
     value |-> IF IsNone(selection) THEN None ELSE RegexSearch(selection[1]),
     needs_review |-> IsNone(selection)]

\* resolve_answer: the record of a decision; the selection is None or a display string
ResolveAnswer(flair_id, selection) ==
    [key |-> flair_id,
     value |-> IF IsNone(selection) THEN None ELSE RegexSearch(selection[1]),
     needs_review |-> FALSE]

\* json.dumps(answer, ensure_ascii=False) written to a file opened with encoding="utf8"
JsonLine(answer) ==
    [key |-> Utf8Encode(answer.key),
     value |-> IF IsNone(answer.value) THEN None ELSE Some(Utf8Encode(answer.value[1])),
     needs_review |-> answer.needs_review]

\* SaveAnswer with a slip: the file is opened with "w", not "a"
SaveAnswerTruncating(answer, file) == Some(<<JsonLine(answer)>>)

\* save_answer: the line is appended, the file created when absent
SaveAnswer(answer, file) ==
    Some(Append(IF IsNone(file) THEN <<>> ELSE file[1], JsonLine(answer)))

\* json.loads(line)["key"] for every line of a file opened without `encoding`
LabelledKeys(file) == [k \in DOMAIN file[1] |-> LocaleDecode(file[1][k].key)]

\* the entries of flair_data whose key is not in labelled_keys
Unlabelled(data, labelled) ==
    SelectSeq(data, LAMBDA entry : \A k \in DOMAIN labelled : labelled[k] # entry.key)

Table(keys) == [k \in DOMAIN keys |-> [key |-> keys[k], values |-> ValuesOf(keys[k])]]

Distinct(s) == \A a, b \in DOMAIN s : a # b => s[a] # s[b]

\* the labeler before main is called
LabelIdle ==
    /\ lpc = "idle"
    /\ lerror = "none"
    /\ exit_code = None
    /\ continue_labelling = FALSE
    /\ todo = <<>>
    /\ prompted = <<>>
    /\ log0 = log
    /\ sessions = 0
    /\ selected = None
    /\ finished_once = FALSE

\* lines a log may hold at the start: a record of each key, and one that some
\* other tool marked for review
LogLinePool ==
    {JsonLine(ResolveAnswer(k, None)) : k \in KeyPool \cup {KeyZ}}
    \cup {[JsonLine(ResolveAnswer(KeyZ, None)) EXCEPT !.needs_review = TRUE]}

\* any table, any well-formed log, any locale
LabelInit ==
    /\ flair_data \in {Table(ks) : ks \in {s \in SeqsUpTo(KeyPool, MaxKeys) : Distinct(s)}}
    /\ log \in {None} \cup
         {Some(ls) : ls \in SeqsUpTo(LogLinePool, MaxLogLines)}
    /\ locale_encoding \in Encodings
    /\ LabelIdle

\* any table, no log yet, any locale
ResumeInit ==
    /\ flair_data \in {Table(ks) : ks \in {s \in SeqsUpTo(KeyPool, MaxKeys) : Distinct(s)}}
    /\ log = None
    /\ locale_encoding \in Encodings
    /\ LabelIdle

\* main and label_keys up to the loop: lines 64-80, 45-51 (the mkdir of the
\* log's parent folder, line 78, changes nothing the model holds)
StartSession(c) ==
    /\ lpc \in {"idle", "finished", "exited", "crashed"}
    /\ sessions < MaxSessions
    /\ sessions' = sessions + 1
    /\ continue_labelling' = c
    /\ todo' = IF c /\ ~IsNone(log)
               THEN Unlabelled(flair_data, LabelledKeys(log))
               ELSE flair_data
    /\ log' = IF ~c THEN Some(<<>>) ELSE log
    /\ log0' = log
    /\ prompted' = <<>>
    /\ selected' = None
    /\ lerror' = "none"
    /\ exit_code' = None
    /\ lpc' = "loop"
    /\ UNCHANGED <<flair_data, locale_encoding, finished_once>>
    /\ UNCHANGED fetchVars

\* prompt_options(key, values) shows the next key: lines 53-55
Prompt ==
    /\ lpc = "loop"
    /\ todo # <<>>
    /\ prompted' = Append(prompted, Head(todo).key)
    /\ selected' = None
    /\ lpc' = "prompt"
    /\ UNCHANGED <<flair_data, log, locale_encoding, lerror, exit_code,
                   continue_labelling, todo, log0, sessions, finished_once>>
    /\ UNCHANGED fetchVars

\* the human selects a choice: lines 59-61
Answer ==
    /\ lpc = "prompt"
    /\ \E k \in DOMAIN Choices(Head(todo).values) :
        LET answer == ResolveAnswer(Head(todo).key, Choices(Head(todo).values)[k])
        IN  /\ selected' = Some(IF k <= Len(Head(todo).values)
                                THEN Some(SortedByCount(Head(todo).values)[k])
                                ELSE None)
            /\ IF ~IsNone(Choices(Head(todo).values)[k]) /\ IsNone(answer.value)
               THEN \* re.search found nothing: None.group(1), line 28
                    /\ lpc' = "crashed"
                    /\ lerror' = "AttributeError"
                    /\ UNCHANGED <<log, todo>>
               ELSE /\ log' = SaveAnswer(answer, log)
                    /\ todo' = Tail(todo)
                    /\ lpc' = "loop"
                    /\ UNCHANGED lerror
    /\ UNCHANGED <<flair_data, locale_encoding, exit_code, continue_labelling,
                   prompted, log0, sessions, finished_once>>
    /\ UNCHANGED fetchVars

\* ExitStatus with a slip: the exit reports a failure
ExitStatusFailure == Some(1)
\* sys.exit(0)
ExitStatus == Some(0)

\* the human cancels at the prompt: lines 56-58
Cancel ==
    /\ lpc = "prompt"
    /\ lpc' = "exited"
    /\ exit_code' = ExitStatus
    /\ UNCHANGED <<flair_data, log, locale_encoding, lerror, continue_labelling,
                   todo, prompted, log0, sessions, selected, finished_once>>
    /\ UNCHANGED fetchVars

\* the loop of label_keys is exhausted: line 53
FinishSession ==
    /\ lpc = "loop"
    /\ todo = <<>>
    /\ lpc' = "finished"
    /\ finished_once' = TRUE
    /\ UNCHANGED <<flair_data, log, locale_encoding, lerror, exit_code,
                   continue_labelling, todo, prompted, log0, sessions, selected>>
    /\ UNCHANGED fetchVars

\* the fetcher's part of the state while the labeler runs, and conversely
FetchUnused == corpus = <<>> /\ fs = [d \in Days |-> NoFolder] /\ FetchIdle
LabelUnused == flair_data = <<>> /\ log = None /\ locale_encoding = "utf-8" /\ LabelIdle

Next ==
    \/ \E start \in Days, end \in {None} \cup {Some(e) : e \in 1 .. MaxDays},
          bs \in 1 .. MaxBatch, t \in Timeouts, fr \in BOOLEAN :
          StartRun(start, end, bs, t, fr)
    \/ SkipDay
    \/ BeginDay
    \/ FinishRun
    \/ RespondRetry
    \/ RespondFatal
    \/ Respond200First
    \/ Respond200Next
    \/ Mkdir
    \/ OpenComments
    \/ WriteEntry
    \/ WriteMetadata
    \/ Interrupt

Init == FetchInit /\ LabelUnused

Spec == Init /\ [][Next]_vars

LabelNext ==
    \/ \E c \in BOOLEAN : StartSession(c)
    \/ Prompt
    \/ Answer
    \/ Cancel
    \/ FinishSession

LabelSpecInit == LabelInit /\ FetchUnused

LabelSpec == LabelSpecInit /\ [][LabelNext]_vars

ResumeNext ==
    \/ StartSession(TRUE)
    \/ Prompt
    \/ Answer
    \/ Cancel
    \/ FinishSession

ResumeSpecInit == ResumeInit /\ FetchUnused

ResumeSpec == ResumeSpecInit /\ [][ResumeNext]_vars

(* ------------------------- claims: the fetcher ------------------------- *)

RECURSIVE Concat(_)
Concat(ps) == IF ps = <<>> THEN <<>> ELSE Head(ps) \o Concat(Tail(ps))

RECURSIVE SumLen(_)
SumLen(ps) == IF ps = <<>> THEN 0 ELSE Len(Head(ps)) + SumLen(Tail(ps))

WindowAfter == windows[i][1] * DaySeconds
WindowBefore == windows[i][2] * DaySeconds

\* C1: when get_daily_comments returns, the sequence returned holds every
\* comment of the corpus lying in the window, and its length is the total the
\* API reported for the window.
C1_ReturnsWholeWindow ==
    pc = "fetched" =>
        /\ result[1].comments = Matching(WindowAfter, WindowBefore)
        /\ Len(result[1].comments) = result[1].metadata[1]

\* C2: every request after the first one of a window carries after = T + 1, T
\* the created_utc of the last comment accumulated, and no comment is in the
\* batch twice.
C2_NextAfterNoDuplicate ==
    /\ pc = "next_request" =>
          /\ params.after = Last(comments).created_utc + 1
          /\ ~call.done =>
                \A k \in DOMAIN call.sent :
                    call.sent[k].after = Last(comments).created_utc + 1
    /\ \A a, b \in DOMAIN comments : a # b => comments[a].id # comments[b].id

\* C2 witness: a window fetched in two non-empty pages followed by the empty one.
C2_Witness ==
    /\ pc = "fetched"
    /\ Len(pages) = 3
    /\ pages[1] # <<>> /\ pages[2] # <<>>
    /\ pages[2][1].created_utc = Last(pages[1]).created_utc + 1

\* C3: get_daily_comments has returned exactly when the last page received is
\* empty, the first page of the window included.
C3_ReturnsOnEmptyPage ==
    ~IsNone(result) <=> (pages # <<>> /\ Last(pages) = <<>>)

\* C4: the batch is the concatenation of the pages in request order, its length
\* is the sum of the page sizes, and created_utc never decreases along it.
C4_PagesInOrder ==
    /\ comments = Concat(pages)
    /\ Len(comments) = SumLen(pages)
    /\ \A k \in 1 .. (Len(comments) - 1) :
          comments[k].created_utc <= comments[k + 1].created_utc
    /\ ~IsNone(result) => result[1].comments = Concat(pages)

\* C4 witness: a returned batch made of a page of two comments and a page of one.
C4_Witness ==
    /\ pc = "fetched"
    /\ Len(pages) = 3
    /\ Len(pages[1]) = 2 /\ Len(pages[2]) = 1
    /\ Len(result[1].comments) = 3

\* C5: a send_request call answered n times with 429 or 5xx and then with 200
\* has slept n times, each time `timeout` seconds, has sent n + 1 requests with
\* the same parameters, raised nothing and returned what the 200 response
\* holds; while only 429 and 5xx come, it keeps retrying.
C5_RetryUntil200 ==
    /\ \A k \in DOMAIN call.sleeps : call.sleeps[k] = timeout
    /\ \A k \in DOMAIN call.sent : call.sent[k] = call.sent[1]
    /\ Len(call.sent) = call.attempts
    /\ (call.done /\ call.attempts > 0) =>
          /\ status = 200
          /\ Len(call.sleeps) = call.attempts - 1
          /\ error # "NotImplementedError"
          /\ response = Some(ParseResponse(ApiResponse(call.sent[1])))
    /\ (InRequest /\ ~call.done) => Len(call.sleeps) = call.attempts

\* C5 witness: a call that got two retryable answers and then a 200.
C5_Witness ==
    /\ call.done
    /\ status = 200
    /\ call.attempts = 3
    /\ Len(call.sleeps) = 2

IsFatal(st) == st # 200 /\ st # 429 /\ st < 500

\* C6: a request answered with a status that is not 200, not 429 and below 500
\* ends the run at once: no sleep, no file of any day written or changed (the
\* day in progress and the later days are as they were when the run started),
\* and the aborted run takes no further step.
C6_FatalAborts ==
    [][/\ (call'.attempts = CallNow.attempts + 1 /\ IsFatal(status')) =>
            /\ pc' = "aborted"
            /\ error' = "NotImplementedError"
            /\ call'.sleeps = CallNow.sleeps
            /\ fs' = fs
            /\ writes' = writes
            /\ i' = i
            /\ \A k \in i .. Len(windows) : fs'[windows[k][1]] = fs0[windows[k][1]]
       /\ pc = "aborted" => (pc' = "aborted" \/ runs' = runs + 1)]_vars

\* C6 witness: a run aborted by a fatal status on its second day, the first day
\* written by the same run.
C6_Witness ==
    /\ pc = "aborted"
    /\ error = "NotImplementedError"
    /\ i = 2
    /\ windows[1][1] \in completed
    /\ writes > 0

\* C7: a run that repeats the completed previous run over the same range with
\* force_rewrite false sends no request and creates, truncates or writes no
\* file: it skips every day of the range.
C7_RerunIsNoOp ==
    rerun =>
        /\ call = NoCall
        /\ status = 0
        /\ pages = <<>>
        /\ writes = 0
        /\ fs = fs0
        /\ pc = "done" => skipped = {windows[k][1] : k \in DOMAIN windows}

\* C7 witness: the second run over a range of two days has finished.
C7_Witness ==
    /\ rerun
    /\ pc = "done"
    /\ Len(windows) = 2
    /\ Cardinality(skipped) = 2

\* C8: a day is skipped only when an earlier run completed it, and an
\* interrupted run leaves no partial comments file for the day in progress.
C8_InterruptedDayRedone ==
    /\ \A d \in skipped : d \in completed
    /\ (pc = "aborted" /\ i <= Len(windows) /\ Day \notin completed) =>
          IsNone(fs[Day].comments)

(* ------------------------- claims: the labeler ------------------------- *)

\* the key fields of the lines of a log, a UTF-8 file
LogKeySeq(file) ==
    IF IsNone(file) THEN <<>> ELSE [k \in DOMAIN file[1] |-> Utf8Decode(file[1][k].key)]
LogKeys(file) == {LogKeySeq(file)[k] : k \in DOMAIN LogKeySeq(file)}
TableKeys == {flair_data[k].key : k \in DOMAIN flair_data}
Prompted == {prompted[k] : k \in DOMAIN prompted}

\* C9: with continue true and an existing log, a session prompts only keys of
\* the table that are the key field of no line of the log, all of them when it
\* runs to the end, and keeps the log's lines; with continue false the log
\* holds only records of the session and every key of the table is prompted.
C9_PromptsUnlabelledKeys ==
    /\ (lpc # "idle" /\ continue_labelling /\ ~IsNone(log0)) =>
          /\ Prompted \subseteq (TableKeys \ LogKeys(log0))
          /\ lpc = "finished" => Prompted = TableKeys \ LogKeys(log0)
          /\ SubSeq(log[1], 1, Len(log0[1])) = log0[1]
    /\ (lpc # "idle" /\ ~continue_labelling) =>
          /\ LogKeys(log) \subseteq Prompted
          /\ Len(log[1]) <= Len(prompted)
          /\ lpc = "finished" =>
                prompted = [k \in DOMAIN flair_data |-> flair_data[k].key]

\* C10: over sessions all started with continue true from no log, the key
\* being prompted has no record in the log, no two records of the log have the
\* same key, and once a session has run to the end the keys of the log are the
\* keys of the table.
C10_ResumeWithoutRedo ==
    /\ lpc = "prompt" => Head(todo).key \notin LogKeys(log)
    /\ Distinct(LogKeySeq(log))
    /\ finished_once => LogKeys(log) = TableKeys

\* C14: the windows of a run are one day long, ascending and consecutive;
\* without an end date there is exactly the window [start, start + 1), with one
\* the windows start on exactly the days of [start, end); no two windows have
\* the same start date, which names the folder, and the run has touched only
\* the folders of the windows up to the one in progress.
C14_OneWindowPerDay ==
    runs > 0 =>
        /\ \A k \in DOMAIN windows : windows[k][2] = windows[k][1] + 1
        /\ \A k \in 1 .. (Len(windows) - 1) : windows[k + 1][1] = windows[k][2]
        /\ IsNone(end_date) => windows = <<(<<start_date, start_date + 1>>)>>
        /\ ~IsNone(end_date) =>
               {windows[k][1] : k \in DOMAIN windows} =
                   {d \in 0 .. MaxDays : start_date <= d /\ d < end_date[1]}
        /\ \A k, l \in DOMAIN windows : k # l => windows[k][1] # windows[l][1]
        /\ \A d \in Days :
               (fs[d] # fs0[d] \/ d \in skipped) =>
                   \E k \in DOMAIN windows : k <= i /\ windows[k][1] = d

C14_Witness ==
    /\ pc = "done"
    /\ start_date = 0
    /\ end_date = Some(MaxDays)
    /\ Len(windows) = MaxDays
    /\ \A d \in Days : fs[d] # fs0[d]

\* the start dates of the windows the loop of main has passed
Passed == {windows[k][1] : k \in 1 .. (IF i - 1 < Len(windows) THEN i - 1 ELSE Len(windows))}

\* C15: a day the loop has passed was skipped exactly when its path was a
\* directory at the start of the run and force_rewrite is false; a skipped
\* day's path is as it was; a day that was not skipped has both its files;
\* and once the fetch of a day has returned, only an interruption keeps the
\* run from writing the day's files.
C15_SkipOnlyExistingFolder ==
    /\ \A d \in skipped :
          /\ fs0[d].kind = "dir" /\ ~force_rewrite
          /\ fs[d] = fs0[d]
    /\ \A d \in Passed :
          /\ d \in skipped <=> (fs0[d].kind = "dir" /\ ~force_rewrite)
          /\ d \notin skipped =>
                /\ fs[d].kind = "dir"
                /\ ~IsNone(fs[d].comments)
                /\ ~IsNone(fs[d].metadata)
    /\ (pc = "aborted" /\ ~IsNone(result)) => error = "KeyboardInterrupt"

\* what the API answers to the first request of the window of day d
FirstResponse(d) ==
    ApiResponse([q |-> QUERY_STRING, subreddit |-> SUBREDDIT, metadata |-> TRUE,
                 size |-> batch_size, after |-> d * DaySeconds, order |-> "asc",
                 before |-> Some((d + 1) * DaySeconds)])

\* C16: the requests of the first send_request call of a window carry the
\* metadata flag, those of every later call do not; from the first 200 response
\* on, the metadata kept, returned and written to the day's metadata file is
\* the metadata of that response.
C16_MetadataOfFirstResponse ==
    /\ pc = "first_request" =>
          /\ params.metadata
          /\ \A k \in DOMAIN call.sent : call.sent[k].metadata
    /\ pc = "next_request" =>
          /\ ~params.metadata
          /\ ~call.done => \A k \in DOMAIN call.sent : ~call.sent[k].metadata
    /\ pc \in {"next_request", "fetched", "open_comments", "write_comments"} =>
          /\ ~IsNone(metadata)
          /\ metadata = FirstResponse(Day).metadata
    /\ pc \in {"fetched", "open_comments", "write_comments"} =>
          result[1].metadata = FirstResponse(Day).metadata
    /\ \A d \in Passed \ skipped :
          fs[d].metadata = Some(FirstResponse(d).metadata)

\* C16 witness: a day written after three pages, the first of them shorter
\* than the total the first response reported.
C16_Witness ==
    /\ pc = "loop"
    /\ i = 2
    /\ Len(pages) = 3
    /\ fs[windows[1][1]].metadata = Some(Some(2))
    /\ Len(pages[1]) = 1

\* C18: when a 200 response with comments leads to another request of the
\* window, that request's after is greater than the after of the request
\* answered; and get_daily_comments ends without returning only when a
\* response has a status that is neither 200 nor retried, or when the process
\* is interrupted.
C18_AfterGrowsUntilReturn ==
    [][/\ (InRequest /\ pc' = "next_request" /\ pages' # pages) =>
              params'.after > params.after
       /\ (InRequest /\ pc' = "aborted") =>
              error' \in {"NotImplementedError", "KeyboardInterrupt"}]_vars

\* the ids of the comments in the comments file of day d
Persisted(d) ==
    IF IsNone(fs[d].comments) THEN {}
    ELSE {fs[d].comments[1][k].id : k \in DOMAIN fs[d].comments[1]}

\* C19: every request of a window carries before = the end of the window,
\* size = the batch size and order asc; every comment accumulated for the
\* window has created_utc in [after, before) of the window; every comment in a
\* day's comments file lies in that day, and no comment is in the files of two
\* days.
C19_RequestsBoundedByWindow ==
    /\ InRequest =>
          /\ params.before = Some(WindowBefore)
          /\ params.size = batch_size
          /\ params.order = "asc"
          /\ ~call.done =>
                \A k \in DOMAIN call.sent :
                    /\ call.sent[k].before = Some(WindowBefore)
                    /\ call.sent[k].size = batch_size
                    /\ call.sent[k].order = "asc"
    /\ pc \in {"next_request", "fetched", "open_comments", "write_comments"} =>
          \A k \in DOMAIN comments :
              /\ WindowAfter <= comments[k].created_utc
              /\ comments[k].created_utc < WindowBefore
    /\ \A d \in Days :
          ~IsNone(fs[d].comments) =>
              \A k \in DOMAIN fs[d].comments[1] :
                  /\ d * DaySeconds <= fs[d].comments[1][k].created_utc
                  /\ fs[d].comments[1][k].created_utc < (d + 1) * DaySeconds
    /\ \A d, e \in Days : d # e => Persisted(d) \cap Persisted(e) = {}

\* C19 witness: a run that wrote two days, the last second of the first day
\* and the first second of the second day each holding a comment.
C19_Witness ==
    /\ pc = "done"
    /\ Len(windows) = 2
    /\ skipped = {}
    /\ \E a \in Persisted(windows[1][1]), b \in Persisted(windows[2][1]) :
          /\ corpus[a] = windows[1][2] * DaySeconds - 1
          /\ corpus[b] = windows[2][1] * DaySeconds

\* the lines of a log file, none when the file is absent
Lines(file) == IF IsNone(file) THEN <<>> ELSE file[1]
\* the lines the log held when the session began prompting
BaseLen == IF continue_labelling THEN Len(Lines(log0)) ELSE 0
\* the lines the session has added
AddedLen == Len(Lines(log)) - BaseLen

\* C11: at every prompt of a session the lines the session has added to the
\* log are as many as the decisions made before that prompt, after each
\* recorded decision as many as the keys prompted, and a session interrupted
\* after N decisions has added exactly N lines.
C11_OneLinePerDecision ==
    /\ lpc = "prompt" => AddedLen = Len(prompted) - 1
    /\ lpc = "exited" => AddedLen = Len(prompted) - 1
    /\ lpc \in {"loop", "finished"} => AddedLen = Len(prompted)

C11_Witness ==
    /\ lpc = "exited"
    /\ continue_labelling
    /\ Len(Lines(log0)) = 1
    /\ Len(prompted) = 3
    /\ AddedLen = 2

\* C12: a step that leaves a prompt without recording an answer is the exit
\* with status 0: the log, the keys still to prompt and the keys prompted are
\* unchanged, and nothing is prompted until another session is started.
C12_CancelExitsCleanly ==
    [][/\ (lpc = "prompt" /\ lpc' \notin {"prompt", "loop", "crashed"}) =>
              /\ lpc' = "exited"
              /\ exit_code' = Some(0)
              /\ log' = log
              /\ todo' = todo
              /\ prompted' = prompted
       /\ lpc = "exited" =>
              \/ sessions' = sessions + 1
              \/ /\ lpc' = "exited"
                 /\ log' = log
                 /\ prompted' = prompted]_vars

C12_Witness ==
    /\ lpc = "exited"
    /\ exit_code = Some(0)
    /\ Len(prompted) = 2
    /\ Len(todo) = 2
    /\ AddedLen = 1
    /\ Utf8Decode(Last(Lines(log)).key) # Last(prompted)

\* C13: after an answer the session has not failed and the last line of the
\* log has the prompted key as its key and, as its value, the label of the
\* chosen candidate, or null when the none option was chosen.
C13_ValueIsChosenLabel ==
    ~IsNone(selected) =>
        /\ lerror = "none"
        /\ Lines(log) # <<>>
        /\ Last(Lines(log)).key = Utf8Encode(Last(prompted))
        /\ Last(Lines(log)).value =
               IF IsNone(selected[1]) THEN None
               ELSE Some(Utf8Encode(selected[1][1][1]))

\* C17: every line a session adds to the log has needs_review false.
C17_NeedsReviewFalse ==
    lpc # "idle" =>
        \A k \in DOMAIN Lines(log) :
            k > BaseLen => Lines(log)[k].needs_review = FALSE

C17_Witness ==
    /\ lpc = "finished"
    /\ continue_labelling
    /\ \E k \in DOMAIN Lines(log0) : Lines(log0)[k].needs_review
    /\ \E k, l \in DOMAIN Lines(log) :
          /\ k > BaseLen /\ l > BaseLen
          /\ IsNone(Lines(log)[k].value)
          /\ ~IsNone(Lines(log)[l].value)

====
